---- MODULE Spec2Model ----
(***************************************************************************)
(* Model of the task router src/routes/tareas.js (the handlers            *)
(* obtenerTareas, crearTarea, obtenerTarea, actualizarTarea, borrarTarea   *)
(* and the header validators) over the persistence collaborator            *)
(* ../logic/tareas and the schema src/models/tarea.js.                     *)
(*                                                                         *)
(* A handler is an async function: it runs synchronously up to each await  *)
(* of a collaborator call.  Each action below is one such synchronous      *)
(* stretch: the collaborator call that was pending takes effect on the     *)
(* store and the handler runs on to its next await or to its response.     *)
(***************************************************************************)
EXTENDS Naturals, Sequences, FiniteSets

\* ------------------------------------------------------------------ bounds
\* Tasks the collaborator ever creates (ids 1..MaxTasks).
MaxTasks == 1
\* Readings of the clock (Date.now()) in one behaviour.
MaxClock == 4
\* Length, in tokens, of the header values drawn for the validators.
MaxHdrLen == 3

\* -------------------------------------------------------------- JS values
\* A JavaScript value of a header or of a body field: its type and, for a
\* string, its text as a sequence of tokens.  A token is a piece of text
\* holding neither ";" nor white space ("application/json", "charset=utf-8"),
\* or the separator ";" or one blank " ".  A number carries its literal as
\* one token.
JS(type, val) == [type |-> type, val |-> val]
Undefined == JS("undefined", <<>>)
Str(toks) == JS("string", toks)
Num(lit) == JS("number", <<lit>>)
EmptyString == Str(<<>>)

\* typeof v === "string" (v instanceof String never holds of a header or of
\* a JSON-parsed body field).
IsString(v) == v.type = "string"

\* JavaScript's ToBoolean, as used by `!v`, `v &&` and `if (v)`.
Truthy(v) ==
  CASE v.type = "undefined" -> FALSE
    [] v.type = "null" -> FALSE
    [] v.type = "boolean" -> v.val # <<"false">>
    [] v.type = "number" -> v.val # <<"0">>
    [] v.type = "string" -> v.val # <<>>
    [] OTHER -> TRUE

\* ---------------------------------------------------------- header parsing
RECURSIVE SplitFrom(_, _, _)
\* String.prototype.split(";"): the segments between separators; a string
\* without separator is its own single segment, the empty string gives [""].
SplitFrom(toks, i, cur) ==
  IF i > Len(toks) THEN <<cur>>
  ELSE IF toks[i] = ";" THEN <<cur>> \o SplitFrom(toks, i + 1, <<>>)
  ELSE SplitFrom(toks, i + 1, Append(cur, toks[i]))

Split(toks) == SplitFrom(toks, 1, <<>>)

RECURSIVE TrimStart(_)
TrimStart(seg) ==
  IF seg # <<>> /\ Head(seg) = " " THEN TrimStart(Tail(seg)) ELSE seg

RECURSIVE TrimEnd(_)
TrimEnd(seg) ==
  IF seg # <<>> /\ seg[Len(seg)] = " "
    THEN TrimEnd(SubSeq(seg, 1, Len(seg) - 1))
    ELSE seg

\* String.prototype.trim()
Trim(seg) == TrimEnd(TrimStart(seg))

\* header.split(";").map(h => h.trim())
SplitTrim(toks) == [i \in 1..Len(Split(toks)) |-> Trim(Split(toks)[i])]

\* Array.prototype.includes
Includes(arr, x) == \E i \in 1..Len(arr) : arr[i] = x

AppJson == <<"application/json">>
AnyMedia == <<"*/*">>

\* A bug the Accept check could have: only the first segment is looked at.
validAcceptHeaderFirstOnly(acceptHeader) ==
  IF ~Truthy(acceptHeader) /\ acceptHeader # EmptyString THEN TRUE
  ELSE IF ~IsString(acceptHeader) THEN FALSE
  ELSE SplitTrim(acceptHeader.val)[1] \in {AppJson, AnyMedia}

validAcceptHeader(acceptHeader) ==
  IF ~Truthy(acceptHeader) /\ acceptHeader # EmptyString THEN TRUE
  ELSE IF ~IsString(acceptHeader) THEN FALSE
  ELSE LET acceptedTypes == SplitTrim(acceptHeader.val)
       IN  Includes(acceptedTypes, AppJson) \/ Includes(acceptedTypes, AnyMedia)

validContentTypeHeader(contentTypeHeader) ==
  IF ~Truthy(contentTypeHeader) THEN FALSE
  ELSE IF ~IsString(contentTypeHeader) THEN FALSE
  ELSE Includes(SplitTrim(contentTypeHeader.val), AppJson)


\* ------------------------------------------------------------------ tasks
PENDIENTE == Str(<<"PENDIENTE">>)
TERMINADO == Str(<<"TERMINADO">>)
CANCELADO == Str(<<"CANCELADO">>)
\* ["PENDIENTE", "TERMINADO", "CANCELADO"]
StatusValues == {PENDIENTE, TERMINADO, CANCELADO}

Ids == 1..MaxTasks
\* The request slots: at most two requests are in flight at once.
Procs == {1, 2}

\* A stored document.  A field the document does not have reads as
\* undefined, which is how the handlers see it.
NoTask ==
  [exists |-> FALSE, status |-> Undefined, description |-> Undefined, date |-> 0]
\* A task object as the collaborator hands it out (id 0: no id field).
NoRecord ==
  [id |-> 0, status |-> Undefined, description |-> Undefined, date |-> 0]

\* The schema declares no path `status`, and no path with a default: a
\* document created from a record without status has none.
tareaSchemaDefaultStatus == Undefined

\* Values the clients send.
ContentTypes == {Undefined, Str(AppJson), Str(<<"text/plain">>)}
Accepts == {Undefined, Str(<<"text/html">>)}
StatusInputs ==
  {Undefined, PENDIENTE, TERMINADO, CANCELADO, EmptyString, Str(<<"OTRO">>)}
DescriptionInputs == {Undefined, Str(<<"a">>), Num("7"), Num("0")}
\* The bodies of POST /tasks: a description or none, a status or none.
CreateBodies ==
  [status : {Undefined, TERMINADO},
   description : {Undefined, Str(<<"a">>), Num("7")}]

\* What req.header("Accept") can return: undefined when the header is
\* absent, else its text, here every string of at most MaxHdrLen tokens.
HdrTokens == {"application/json", "*/*", "text/html", ";", " "}
HdrStrings ==
  UNION {[1..n -> HdrTokens] : n \in 0..MaxHdrLen}
HeaderValues == {Str(toks) : toks \in HdrStrings} \cup {Undefined}

VARIABLES
  store,    \* the collaborator's documents, by id
  nextId,   \* the id the collaborator gives the next created task
  clock,    \* Date.now(): the number of readings so far
  proc,     \* the requests in flight, by slot: position and locals
  last,     \* the request the last step ended, if it ended one: what was
            \* asked and what was sent
  first,    \* by id: the first terminal status an update answered 200 has
            \* set on the task, if any has
  cap       \* how many requests may be in flight at once

vars == <<store, nextId, clock, proc, last, first, cap>>

\* What a request in flight remembers of another request on the same id
\* that ended meanwhile: its operation, the kind of its response and the
\* fields it asked to change.
NoOther ==
  [op |-> "none", kind |-> "none", status |-> Undefined,
   description |-> Undefined]

Idle ==
  [pc |-> "idle", op |-> "none", id |-> 0, status |-> Undefined,
   description |-> Undefined, contentType |-> Undefined,
   accept |-> Undefined, t |-> NoRecord,
   fetched |-> FALSE, oldStatus |-> Undefined, before |-> NoTask,
   calls |-> <<>>, other |-> NoOther, written |-> FALSE]

\* The log entry of request r ending: whether a response was sent, the
\* status code, the kind of the response and the task it carries.  Of the
\* request it keeps its id, the headers and the body fields the handler had
\* read by then, the stored task when it arrived (before),
\* whether its first getOne found the task and the status that task then had
\* (oldStatus), the collaborator calls it made, the request on the same id
\* that ended while it was in flight (other) and whether another update
\* wrote the task between its own write and its re-read (written).
Ended(r, sent, code, kind, body) ==
  [op |-> r.op, id |-> r.id, status |-> r.status,
   description |-> r.description, contentType |-> r.contentType,
   accept |-> r.accept,
   fetched |-> r.fetched, oldStatus |-> r.oldStatus,
   sent |-> sent, code |-> code, kind |-> kind, calls |-> r.calls,
   before |-> r.before, body |-> body, other |-> r.other,
   written |-> r.written]

\* No request ended in the last step.
NoEnd == Ended(Idle, FALSE, 0, "none", NoRecord)

InFlight == Cardinality({q \in Procs : proc[q].pc # "idle"})

\* The router hands a new request to its handler, in the lowest free slot,
\* once the response that was just sent has left.
Begin(p) ==
  /\ last = NoEnd
  /\ proc[p].pc = "idle"
  /\ InFlight < cap
  /\ \A q \in Procs : q < p => proc[q].pc # "idle"

Init0 ==
  /\ store = [i \in Ids |-> NoTask]
  /\ nextId = 1
  /\ clock = 0
  /\ proc = [p \in Procs |-> Idle]
  /\ last = NoEnd
  /\ first = [i \in Ids |-> Undefined]

\* Spec: the requests arrive one after the other.
Init == Init0 /\ cap = 1

\* ------------------------------------------------------- the collaborator
\* getOne(id) resolves with the task of that id, its id included, and fails
\* when the id does not resolve.
GetOneResolves(id) == store[id].exists
GetOne(id) ==
  [id |-> id, status |-> store[id].status,
   description |-> store[id].description, date |-> store[id].date]

\* create(record): the new document holds the record's fields; a field the
\* record lacks gets the schema's default.
Created(record) ==
  [exists |-> TRUE,
   status |-> IF record.status = Undefined THEN tareaSchemaDefaultStatus
              ELSE record.status,
   description |-> record.description, date |-> record.date]

\* update(id, record): the document takes the record's fields.
Updated(record) ==
  [exists |-> TRUE, status |-> record.status,
   description |-> record.description, date |-> record.date]

\* ------------------------------------------------------ handlers' pieces
\* A bug the description check could have: the test of the type is inverted.
DescriptionRejectedInverted(description) ==
  Truthy(description) /\ IsString(description)

\* description && !(description instanceof String ||
\*                  typeof description === "string")
DescriptionRejected(description) ==
  Truthy(description) /\ ~IsString(description)

\* A bug the transition check could have: the guard status !== oldStatus
\* is missing.
StatusCheckNoSameGuard(status, oldStatus) ==
  IF ~Truthy(status) THEN "skip"
  ELSE IF status \notin StatusValues THEN "InvalidStatusValue"
  ELSE IF oldStatus = PENDIENTE /\ status # TERMINADO /\ status # CANCELADO
    THEN "IllegalTransition"
  ELSE IF \/ oldStatus = TERMINADO /\ status = CANCELADO
          \/ oldStatus = CANCELADO /\ status = TERMINADO
    THEN "IllegalTransition"
  ELSE "set"

\* A bug the transition check could have: only TERMINADO -> CANCELADO is
\* refused.
StatusCheckOneWay(status, oldStatus) ==
  IF ~Truthy(status) THEN "skip"
  ELSE IF status \notin StatusValues THEN "InvalidStatusValue"
  ELSE IF status # oldStatus /\ oldStatus = TERMINADO /\ status = CANCELADO
    THEN "IllegalTransition"
  ELSE "set"

\* The block `if (status) { ... t.status = status; }` of actualizarTarea:
\* "skip" when the block is not entered, "set" when it ends by the
\* assignment, else the kind of the 400 it answers.
StatusCheck(status, oldStatus) ==
  IF ~Truthy(status) THEN "skip"
  ELSE IF status \notin StatusValues THEN "InvalidStatusValue"
  ELSE IF status # oldStatus
    THEN IF oldStatus = PENDIENTE /\ status # TERMINADO /\ status # CANCELADO
           THEN "IllegalTransition"
         ELSE IF \/ oldStatus = TERMINADO /\ status = CANCELADO
                 \/ oldStatus = CANCELADO /\ status = TERMINADO
           THEN "IllegalTransition"
         ELSE "set"
  ELSE "set"

\* A bug the update could have: `delete t.id` is forgotten.
SinIdOlvidado(t) == t

\* t after `delete t.id`.
SinId(t) == [t EXCEPT !.id = 0]

\* A bug the update could have: the record written holds the fields of this
\* request alone, not the task as fetched.
MutatedFromScratch(t, status, description, now) ==
  [id |-> t.id,
   status |-> IF StatusCheck(status, t.status) = "set"
                THEN status ELSE Undefined,
   description |-> IF Truthy(description) THEN description ELSE Undefined,
   date |-> now]

\* A bug the update could have: the date is not stamped.
MutatedNoDate(t, status, description, now) ==
  [t EXCEPT !.status = IF StatusCheck(status, t.status) = "set"
                         THEN status ELSE @,
            !.description = IF Truthy(description) THEN description ELSE @]

\* t after `t.status = status`, `if (description) t.description = ...` and
\* `t.date = new Date(Date.now())`.
Mutated(t, status, description, now) ==
  [t EXCEPT !.status = IF StatusCheck(status, t.status) = "set"
                         THEN status ELSE @,
            !.description = IF Truthy(description) THEN description ELSE @,
            !.date = now]

\* A bug the update could have: the object in hand is sent, not the re-read.
tareaActualizadaLocal(t, reread) == t

\* What a successful update sends: tareaActualizada, the task just re-read
\* (not t, the object it wrote).
tareaActualizada(t, reread) == reread

\* A bug the delete could have: the catch of getOne does not return.
BorrarSigueSinReturn(found) == TRUE

\* borrarTarea goes on to erase when getOne resolved; else its catch answers
\* and returns.
BorrarSigue(found) == found

\* modeloACrear: the body's description and the date; no status, no id.
modeloACrear(jsonBody, now) ==
  [id |-> 0, status |-> Undefined, description |-> jsonBody.description,
   date |-> now]

\* ---------------------------------------------------------------- actions
\* Requests that have yet to read the clock.
ToStamp == Cardinality({q \in Procs : proc[q].pc = "upd_getOne"})
\* Requests that have yet to create their task.
ToCreate == Cardinality({q \in Procs : proc[q].pc = "create"})

\* The request r, in flight, after another request ended with this entry.
Noted(r, entry) ==
  IF r.pc # "idle" /\ entry.id # 0 /\ r.id = entry.id
    THEN [r EXCEPT !.other = [op |-> entry.op, kind |-> entry.kind,
                              status |-> entry.status,
                              description |-> entry.description]]
    ELSE r

\* The request r, in flight, after another request's update wrote task id.
Overwritten(r, id) ==
  IF r.pc = "upd_reread" /\ r.id = id THEN [r EXCEPT !.written = TRUE] ELSE r

\* The request in slot p ends with this log entry.
End(p, entry) ==
  /\ last' = entry
  /\ proc' = [q \in Procs |-> IF q = p THEN Idle ELSE Noted(proc[q], entry)]

\* The request in slot p goes on as r.
Goes(p, r) ==
  /\ proc' = [proc EXCEPT ![p] = r]
  /\ last' = NoEnd

\* GET /tasks: obtenerTareas up to `await tareasLogic.getAll()`.
ObtenerTareas(p, acceptHeader) ==
  /\ Begin(p)
  /\ LET r == [Idle EXCEPT !.op = "obtenerTareas", !.accept = acceptHeader]
     IN  IF ~validAcceptHeader(acceptHeader)
           THEN End(p, Ended(r, TRUE, 400, "MediaNotSupported", NoRecord))
           ELSE Goes(p, [r EXCEPT !.pc = "getAll", !.calls = <<"getAll">>])
  /\ UNCHANGED <<store, nextId, clock, first, cap>>

\* getAll() resolves (ok) or fails; obtenerTareas has no try around it, so
\* a failure rejects the handler's promise and nothing is sent.
ObtenerTareasDone(p, ok) ==
  /\ proc[p].pc = "getAll"
  /\ IF ok
       THEN End(p, Ended(proc[p], TRUE, 200, "OK", NoRecord))
       ELSE End(p, Ended(proc[p], FALSE, 200, "UnhandledFault",
                         NoRecord))
  /\ UNCHANGED <<store, nextId, clock, first, cap>>

\* POST /tasks: crearTarea up to `await tareasLogic.create(modeloACrear)`.
\* The 400 for a description that is no string is never sent: building its
\* details reads `description`, which crearTarea does not declare, and the
\* ReferenceError rejects the handler's promise after statusCode was set.
CrearTarea(p, contenTypeHeader, jsonBody) ==
  /\ Begin(p)
  /\ LET h == [Idle EXCEPT !.op = "crearTarea",
                           !.contentType = contenTypeHeader]
         r == [h EXCEPT !.status = jsonBody.status,
                        !.description = jsonBody.description]
     IN  IF ~validContentTypeHeader(contenTypeHeader)
           THEN /\ End(p, Ended(h, TRUE, 400, "InvalidContentType", NoRecord))
                /\ UNCHANGED clock
         ELSE IF DescriptionRejected(jsonBody.description)
           THEN /\ End(p, Ended(r, FALSE, 400, "UnhandledFault",
                                NoRecord))
                /\ UNCHANGED clock
         ELSE /\ clock + ToStamp < MaxClock
              /\ nextId + ToCreate <= MaxTasks
              /\ clock' = clock + 1
              /\ Goes(p, [r EXCEPT !.pc = "create", !.calls = <<"create">>,
                                   !.t = modeloACrear(jsonBody, clock + 1)])
  /\ UNCHANGED <<store, nextId, first, cap>>

\* create() resolves with the created task, or fails: no try around it.
CrearTareaDone(p, ok) ==
  /\ proc[p].pc = "create"
  /\ IF ok
       THEN /\ store' = [store EXCEPT ![nextId] = Created(proc[p].t)]
            /\ nextId' = nextId + 1
            /\ End(p, Ended([proc[p] EXCEPT !.id = nextId], TRUE, 200, "OK",
                            [id |-> nextId,
                             status |-> Created(proc[p].t).status,
                             description |-> Created(proc[p].t).description,
                             date |-> Created(proc[p].t).date]))
       ELSE /\ End(p, Ended(proc[p], FALSE, 200, "UnhandledFault", NoRecord))
            /\ UNCHANGED <<store, nextId>>
  /\ UNCHANGED <<clock, first, cap>>

\* GET /tasks/:idTarea: obtenerTarea up to `await tareasLogic.getOne`.  The
\* handler does not read the request's Accept header.
ObtenerTarea(p, acceptHeader, idTarea) ==
  /\ Begin(p)
  /\ Goes(p, [Idle EXCEPT !.op = "obtenerTarea", !.id = idTarea,
                          !.accept = acceptHeader,
                          !.pc = "getOne", !.calls = <<"getOne">>,
                          !.before = store[idTarea]])
  /\ UNCHANGED <<store, nextId, clock, first, cap>>

ObtenerTareaDone(p, ok) ==
  /\ proc[p].pc = "getOne"
  /\ IF ok /\ GetOneResolves(proc[p].id)
       THEN End(p, Ended([proc[p] EXCEPT !.fetched = TRUE,
                            !.oldStatus = store[proc[p].id].status],
                         TRUE, 200, "OK", GetOne(proc[p].id)))
       ELSE End(p, Ended(proc[p], TRUE, 400, "ResourceNotFound",
                         NoRecord))
  /\ UNCHANGED <<store, nextId, clock, first, cap>>

\* PUT /tasks/:idTarea: actualizarTarea up to the first
\* `await tareasLogic.getOne(idTarea)`.
ActualizarTarea(p, contenTypeHeader, acceptHeader, idTarea, status, description) ==
  /\ Begin(p)
  /\ LET h == [Idle EXCEPT !.op = "actualizarTarea", !.id = idTarea,
                           !.contentType = contenTypeHeader,
                           !.accept = acceptHeader,
                           !.before = store[idTarea]]
         r == [h EXCEPT !.status = status, !.description = description]
     IN  IF ~validContentTypeHeader(contenTypeHeader)
           THEN End(p, Ended(h, TRUE, 400, "InvalidContentType", NoRecord))
         ELSE IF ~validAcceptHeader(acceptHeader)
           THEN End(p, Ended(h, TRUE, 400, "MediaNotSupported", NoRecord))
         ELSE IF DescriptionRejected(description)
           THEN End(p, Ended(r, TRUE, 400, "InvalidAttribute",
                             NoRecord))
         ELSE /\ clock + ToStamp < MaxClock
              /\ Goes(p, [r EXCEPT !.pc = "upd_getOne",
                                   !.calls = <<"getOne">>])
  /\ UNCHANGED <<store, nextId, clock, first, cap>>

\* The first getOne resolves or fails; on a task, `delete t.id`, the status
\* block, the description, the date, up to `await tareasLogic.update`.
ActualizarTareaFetched(p, ok) ==
  /\ proc[p].pc = "upd_getOne"
  /\ IF ~(ok /\ GetOneResolves(proc[p].id))
       THEN /\ End(p, Ended(proc[p], TRUE, 400, "ResourceNotFound", NoRecord))
            /\ UNCHANGED clock
       ELSE LET t == SinId(GetOne(proc[p].id))
                r == [proc[p] EXCEPT !.fetched = TRUE,
                                     !.oldStatus = t.status, !.t = t]
                check == StatusCheck(r.status, t.status)
            IN  IF check \in {"InvalidStatusValue", "IllegalTransition"}
                  THEN /\ End(p, Ended(r, TRUE, 400, check,
                                       NoRecord))
                       /\ UNCHANGED clock
                  ELSE /\ clock' = clock + 1
                       /\ Goes(p, [r EXCEPT
                            !.pc = "upd_update",
                            !.calls = Append(@, "update"),
                            !.t = Mutated(t, r.status, r.description,
                                          clock + 1)])
  /\ UNCHANGED <<store, nextId, first, cap>>

\* update(idTarea, t) takes effect, or fails (the id no longer resolves, or
\* the collaborator fails); then `await tareasLogic.getOne(idTarea)`.
ActualizarTareaUpdated(p, ok) ==
  /\ proc[p].pc = "upd_update"
  /\ IF ok /\ store[proc[p].id].exists
       THEN /\ store' = [store EXCEPT ![proc[p].id] = Updated(proc[p].t)]
            /\ proc' = [q \in Procs |->
                          IF q = p
                            THEN [proc[p] EXCEPT !.pc = "upd_reread",
                                                 !.calls = Append(@, "getOne")]
                            ELSE Overwritten(proc[q], proc[p].id)]
            /\ last' = NoEnd
       ELSE /\ End(p, Ended(proc[p], TRUE, 400, "PersistenceFailure", NoRecord))
            /\ UNCHANGED store
  /\ UNCHANGED <<nextId, clock, first, cap>>

\* The second getOne resolves with tareaActualizada, which is sent, or fails.
ActualizarTareaReread(p, ok) ==
  /\ proc[p].pc = "upd_reread"
  /\ IF ok /\ GetOneResolves(proc[p].id)
       THEN /\ End(p, Ended(proc[p], TRUE, 200, "OK",
                            tareaActualizada(proc[p].t, GetOne(proc[p].id))))
            /\ first' =
                 [first EXCEPT ![proc[p].id] =
                    IF @ = Undefined /\ proc[p].status \in {TERMINADO, CANCELADO}
                      THEN proc[p].status ELSE @]
       ELSE /\ End(p, Ended(proc[p], TRUE, 400, "PersistenceFailure", NoRecord))
            /\ UNCHANGED first
  /\ UNCHANGED <<store, nextId, clock, cap>>

\* DELETE /tasks/:idTarea: borrarTarea up to `await tareasLogic.getOne`.
BorrarTarea(p, idTarea) ==
  /\ Begin(p)
  /\ Goes(p, [Idle EXCEPT !.op = "borrarTarea", !.id = idTarea,
                          !.pc = "del_getOne", !.calls = <<"getOne">>,
                          !.before = store[idTarea]])
  /\ UNCHANGED <<store, nextId, clock, first, cap>>

BorrarTareaFetched(p, ok) ==
  /\ proc[p].pc = "del_getOne"
  /\ IF ~BorrarSigue(ok /\ GetOneResolves(proc[p].id))
       THEN End(p, Ended(proc[p], TRUE, 400, "ResourceNotFound",
                         NoRecord))
       ELSE Goes(p, [proc[p] EXCEPT !.pc = "del_erase",
                                    !.fetched = ok /\ GetOneResolves(proc[p].id),
                                    !.oldStatus = store[proc[p].id].status,
                                    !.calls = Append(@, "erase")])
  /\ UNCHANGED <<store, nextId, clock, first, cap>>

\* erase(idTarea) takes effect, or fails.
BorrarTareaErased(p, ok) ==
  /\ proc[p].pc = "del_erase"
  /\ IF ok /\ store[proc[p].id].exists
       THEN /\ store' = [store EXCEPT ![proc[p].id] = NoTask]
            /\ End(p, Ended(proc[p], TRUE, 200, "Deleted",
                            NoRecord))
       ELSE /\ End(p, Ended(proc[p], TRUE, 400, "PersistenceFailure", NoRecord))
            /\ UNCHANGED store
  /\ UNCHANGED <<nextId, clock, first, cap>>

\* The response that was just sent has left the router.
Delivered ==
  /\ last # NoEnd
  /\ last' = NoEnd
  /\ UNCHANGED <<store, nextId, clock, proc, first, cap>>

Next ==
  \/ Delivered
  \/ \E p \in Procs :
    \/ \E a \in Accepts : ObtenerTareas(p, a)
    \/ \E ok \in BOOLEAN : ObtenerTareasDone(p, ok)
    \/ \E c \in ContentTypes, b \in CreateBodies : CrearTarea(p, c, b)
    \/ \E ok \in BOOLEAN : CrearTareaDone(p, ok)
    \/ \E a \in Accepts, i \in Ids : ObtenerTarea(p, a, i)
    \/ \E ok \in BOOLEAN : ObtenerTareaDone(p, ok)
    \/ \E c \in ContentTypes, a \in Accepts, i \in Ids, s \in StatusInputs,
          d \in DescriptionInputs :
         ActualizarTarea(p, c, a, i, s, d)
    \/ \E ok \in BOOLEAN : ActualizarTareaFetched(p, ok)
    \/ \E ok \in BOOLEAN : ActualizarTareaUpdated(p, ok)
    \/ \E ok \in BOOLEAN : ActualizarTareaReread(p, ok)
    \/ \E i \in Ids : BorrarTarea(p, i)
    \/ \E ok \in BOOLEAN : BorrarTareaFetched(p, ok)
    \/ \E ok \in BOOLEAN : BorrarTareaErased(p, ok)

Spec == Init /\ [][Next]_vars

\* SpecAccept: GET /tasks requests alone, their Accept header drawn from every
\* header value of at most MaxHdrLen tokens.
NextAccept ==
  \/ Delivered
  \/ \E p \in Procs :
       \/ \E a \in HeaderValues : ObtenerTareas(p, a)
       \/ \E ok \in BOOLEAN : ObtenerTareasDone(p, ok)

SpecAccept == Init /\ [][NextAccept]_vars

\* SpecConc: up to two update requests in flight at once, interleaved at
\* their awaits, on a store that holds the task a POST /tasks with an empty
\* body has created at the first clock reading.  Their headers pass, and each
\* asks for a terminal status or for a description.
ConcUpdates ==
  {[status |-> TERMINADO, description |-> Undefined],
   [status |-> CANCELADO, description |-> Undefined],
   [status |-> Undefined, description |-> Str(<<"a">>)]}

ConcCreated ==
  Created(modeloACrear([status |-> Undefined, description |-> Undefined], 1))

InitConc ==
  /\ store = [i \in Ids |-> IF i = 1 THEN ConcCreated ELSE NoTask]
  /\ nextId = 2
  /\ clock = 1
  /\ proc = [p \in Procs |-> Idle]
  /\ last = NoEnd
  /\ first = [i \in Ids |-> Undefined]
  /\ cap = 2

NextConc ==
  \/ Delivered
  \/ \E p \in Procs :
       \/ \E i \in Ids, u \in ConcUpdates :
            ActualizarTarea(p, Str(AppJson), Undefined, i,
                            u.status, u.description)
       \/ \E ok \in BOOLEAN : ActualizarTareaFetched(p, ok)
       \/ \E ok \in BOOLEAN : ActualizarTareaUpdated(p, ok)
       \/ \E ok \in BOOLEAN : ActualizarTareaReread(p, ok)

SpecConc == InitConc /\ [][NextConc]_vars

\* SpecDel: up to two requests in flight at once, each a POST /tasks with an
\* empty body or a DELETE /tasks/{id}.
InitDel == Init0 /\ cap = 2

NextDel ==
  \/ Delivered
  \/ \E p \in Procs :
       \/ CrearTarea(p, Str(AppJson),
                     [status |-> Undefined, description |-> Undefined])
       \/ \E ok \in BOOLEAN : CrearTareaDone(p, ok)
       \/ \E i \in Ids : BorrarTarea(p, i)
       \/ \E ok \in BOOLEAN : BorrarTareaFetched(p, ok)
       \/ \E ok \in BOOLEAN : BorrarTareaErased(p, ok)

SpecDel == InitDel /\ [][NextDel]_vars

\* ----------------------------------------------------------------- claims
\* An update request has just ended, after its first getOne found the task.
UpdateEndedOnTask == last.op = "actualizarTarea" /\ last.fetched

\* C1: TERMINADO and CANCELADO are terminal: once a task's stored status is
\* TERMINADO or CANCELADO, no update changes the stored status to another
\* value (in particular not back to PENDIENTE).
C1_TerminalIsFinal ==
  [][\A i \in Ids :
       (store[i].status \in {TERMINADO, CANCELADO} /\ store'[i].exists)
         => store'[i].status = store[i].status]_vars

\* C2: an update asking CANCELADO of a task fetched as TERMINADO, or
\* TERMINADO of a task fetched as CANCELADO, ends with a 400
\* IllegalTransition, never calls the collaborator's update and leaves the
\* stored task as it was.
C2_CrossTerminalRejected ==
  (UpdateEndedOnTask
     /\ \/ last.oldStatus = TERMINADO /\ last.status = CANCELADO
        \/ last.oldStatus = CANCELADO /\ last.status = TERMINADO)
    => /\ last.sent
       /\ last.code = 400
       /\ last.kind = "IllegalTransition"
       /\ ~Includes(last.calls, "update")
       /\ store[last.id] = last.before

\* C2's case: a task that was CANCELADO was asked to become TERMINADO and
\* the request was refused.
C2_Witness ==
  /\ UpdateEndedOnTask
  /\ last.oldStatus = CANCELADO
  /\ last.status = TERMINADO
  /\ last.kind = "IllegalTransition"

\* C3: creating a task with a body that has no status field yields a stored
\* and returned task whose status is PENDIENTE.
C3_CreatedIsPendiente ==
  (last.op = "crearTarea" /\ last.kind = "OK" /\ last.status = Undefined)
    => /\ last.body.status = PENDIENTE
       /\ store[last.id].status = PENDIENTE

\* C4: on a task no update has given a status yet, an update asking
\* TERMINADO (or CANCELADO) that the collaborator carries out is answered
\* 200 and leaves that status stored; and once one of the two has succeeded
\* on a task the other never succeeds on it.
C4_EachTerminalOnce ==
  /\ (UpdateEndedOnTask /\ last.oldStatus = tareaSchemaDefaultStatus
        /\ last.status \in {TERMINADO, CANCELADO}
        /\ last.kind # "PersistenceFailure")
       => (last.kind = "OK" /\ store[last.id].status = last.status)
  /\ (UpdateEndedOnTask /\ last.kind = "OK"
        /\ last.status \in {TERMINADO, CANCELADO})
       => first[last.id] = last.status

\* C5: an update asking status S of a task whose status is S is not refused
\* by the status checks; when it is answered 200 the stored and returned
\* status is S and the stored date is later than it was.
C5_SameStatusNoOp ==
  (UpdateEndedOnTask /\ last.status \in StatusValues
     /\ last.status = last.oldStatus)
    => /\ last.kind \in {"OK", "PersistenceFailure"}
       /\ last.kind = "OK"
            => /\ store[last.id].status = last.status
               /\ last.body.status = last.status
               /\ store[last.id].date > last.before.date
               /\ last.calls = <<"getOne", "update", "getOne">>

\* C5's case: a PENDIENTE task was asked to become PENDIENTE, with a 200.
C5_Witness ==
  /\ UpdateEndedOnTask
  /\ last.oldStatus = PENDIENTE
  /\ last.status = PENDIENTE
  /\ last.kind = "OK"

\* C6: the status of every stored task is one of PENDIENTE, TERMINADO,
\* CANCELADO, never absent.
C6_StoredStatusEnumerated ==
  \A i \in Ids : store[i].exists => store[i].status \in StatusValues

\* C7: an update of an existing task that supplies a status which is none
\* of the three values (the empty string, 0, false and null included) is
\* answered 400 InvalidStatusValue and leaves the stored task as it was
\* (a failure of the collaborator set aside).
C7_BadStatusRejected ==
  (UpdateEndedOnTask /\ last.status # Undefined
     /\ last.status \notin StatusValues /\ last.kind # "PersistenceFailure")
    => /\ last.sent
       /\ last.code = 400
       /\ last.kind = "InvalidStatusValue"
       /\ store[last.id] = last.before

\* C8, as stated: an update whose id does not resolve is answered 400
\* ResourceNotFound whatever its headers and body.
C8_AlwaysNotFound ==
  (last.op = "actualizarTarea" /\ ~last.before.exists)
    => (last.sent /\ last.code = 400 /\ last.kind = "ResourceNotFound")

\* C8, amended: an update whose id does not resolve, whose Content-Type and
\* Accept headers are acceptable and whose description, if any, is text or
\* falsy, is answered 400 ResourceNotFound whatever its status field; the
\* store is left alone.
C8_NotFoundAfterValidation ==
  (/\ last.op = "actualizarTarea"
   /\ ~last.before.exists
   /\ last.contentType = Str(AppJson)
   /\ last.accept = Undefined
   /\ last.description \in {Undefined, Str(<<"a">>), Num("0")})
    => /\ last.sent
       /\ last.code = 400
       /\ last.kind = "ResourceNotFound"
       /\ last.calls = <<"getOne">>
       /\ store[last.id] = last.before

\* C8's case: an update with a status that is no status value, on an id
\* that does not resolve, answered ResourceNotFound.
C8_Witness ==
  /\ last.op = "actualizarTarea"
  /\ ~last.before.exists
  /\ last.status = Str(<<"OTRO">>)
  /\ last.description = Str(<<"a">>)
  /\ last.kind = "ResourceNotFound"

\* C9: every request ends with a response; none ends in an unhandled fault.
C9_AlwaysResponds ==
  last.op # "none" => (last.sent /\ last.kind # "UnhandledFault")

\* The Accept values C10 says are accepted: the absent header, */*, and
\* application/json alone or followed by ";" and parameters.
C10_StatedAcceptable(h) ==
  \/ h = Undefined
  \/ h = Str(AnyMedia)
  \/ /\ IsString(h)
     /\ Len(h.val) >= 1
     /\ h.val[1] = "application/json"
     /\ Len(h.val) = 1 \/ h.val[2] = ";"

C10_NamesJsonSegment(toks) ==
  \E i \in 1..Len(toks) : \E j \in i..Len(toks) :
    /\ i = 1 \/ toks[i - 1] = ";"
    /\ j = Len(toks) \/ toks[j + 1] = ";"
    /\ \E k \in i..j :
         /\ toks[k] \in {"application/json", "*/*"}
         /\ \A m \in (i..j) \ {k} : toks[m] = " "

----------------------------------------------------------------------------
\* C11. On create and on update, a body whose description field is supplied
\* and is not text (falsy values such as 0 included) is answered 400
\* InvalidAttribute and no record is created or modified.  The requests looked
\* at are those whose headers passed (the handler has read the body), and a
\* fault of the collaborator or of the handler is set aside, so that what is
\* left is the shape check alone.
C11_NonTextDescriptionRejected ==
  ( /\ last.op \in {"crearTarea", "actualizarTarea"}
    /\ last.description # Undefined
    /\ ~IsString(last.description)
    /\ last.kind \notin {"PersistenceFailure", "UnhandledFault"} )
  => ( /\ last.sent
       /\ last.code = 400
       /\ last.kind = "InvalidAttribute"
       /\ last.calls = <<>> )

----------------------------------------------------------------------------
\* C14. Whenever an update request is answered PersistenceFailure ("Can't
\* update"), the stored task is what it was when the request arrived.
C14_FailedUpdateLeavesTask ==
  (last.op = "actualizarTarea" /\ last.kind = "PersistenceFailure")
  => store[last.id] = last.before

----------------------------------------------------------------------------
\* C16. A GET /tasks or GET /tasks/{id} request whose Accept value is not
\* acceptable is answered 400 MediaNotSupported and makes no getAll or getOne
\* call.
C16_ReadsCheckAccept ==
  ( /\ last.op \in {"obtenerTareas", "obtenerTarea"}
    /\ ~validAcceptHeader(last.accept) )
  => ( /\ last.sent
       /\ last.code = 400
       /\ last.kind = "MediaNotSupported"
       /\ last.calls = <<>> )

----------------------------------------------------------------------------
\* C17. An update never alters the id of a stored task: the record an update
\* request passes to the collaborator's update carries no id field, whether
\* the request then succeeds or fails, and a successful update answers with
\* the task under the id it was asked for.
C17_IdUntouched ==
  /\ \A p \in Procs :
        proc[p].pc \in {"upd_update", "upd_reread"} => proc[p].t.id = 0
  /\ ( /\ last.op = "actualizarTarea"
       /\ last.kind = "OK" )
     => ( /\ last.body.id = last.id
          /\ store[last.id].exists )

\* An update has written its record and answered 200 or "Can't update".
C17_Witness ==
  /\ last.op = "actualizarTarea"
  /\ last.kind \in {"OK", "PersistenceFailure"}
  /\ Includes(last.calls, "update")
  /\ store[last.id].exists
  /\ store[last.id] # last.before

----------------------------------------------------------------------------
\* C18. A create or update request that ends in a validation failure
\* (InvalidContentType, MediaNotSupported, InvalidAttribute) has made no call
\* to the collaborator; and the other way round, a create or update request
\* that has called the collaborator passed the header checks its handler
\* makes and the description shape check.
C18_ChecksPassed(r) ==
  /\ validContentTypeHeader(r.contentType)
  /\ r.op = "actualizarTarea" => validAcceptHeader(r.accept)
  /\ ~(Truthy(r.description) /\ ~IsString(r.description))

C18_ValidationBeforeCollaborator ==
  /\ ( /\ last.op \in {"crearTarea", "actualizarTarea"}
       /\ last.kind \in {"InvalidContentType", "MediaNotSupported",
                          "InvalidAttribute"} )
     => last.calls = <<>>
  /\ ( /\ last.op \in {"crearTarea", "actualizarTarea"}
       /\ last.calls # <<>> )
     => C18_ChecksPassed(last)
  /\ \A p \in Procs :
        ( /\ proc[p].op \in {"crearTarea", "actualizarTarea"}
          /\ proc[p].calls # <<>> )
        => C18_ChecksPassed(proc[p])

\* An update of an existing task was refused for its description, and the
\* collaborator was not called.
C18_Witness ==
  /\ last.op = "actualizarTarea"
  /\ last.kind = "InvalidAttribute"
  /\ last.before.exists
  /\ last.calls = <<>>

----------------------------------------------------------------------------
\* C12. The update is not atomic across its fetch, its write and its re-read.
\* What it writes is the whole record it fetched, changed in the fields the
\* request asks for: the fields it does not ask for are those of the task as
\* fetched, and the write puts them in the store whatever the store holds by
\* then.  The witness is the lost update this allows.
C12_WholeRecordWrittenBack ==
  [][\A p \in Procs :
       /\ (proc[p].pc = "upd_getOne" /\ proc'[p].pc = "upd_update")
          => /\ proc'[p].t.description =
                  IF Truthy(proc[p].description) THEN proc[p].description
                  ELSE store[proc[p].id].description
             /\ proc'[p].t.status \in {proc[p].status,
                                       store[proc[p].id].status}
             /\ proc[p].status = Undefined
                  => proc'[p].t.status = store[proc[p].id].status
       /\ (proc[p].pc = "upd_update" /\ proc'[p].pc = "upd_reread")
          => /\ store'[proc[p].id].description = proc[p].t.description
             /\ store'[proc[p].id].status = proc[p].t.status
             /\ store'[proc[p].id].date = proc[p].t.date]_vars

\* Two updates of one task overlapped and both were answered 200: one asked
\* for the description "a" and was answered first, the other asked for the
\* status TERMINADO; the task did not have that description before, and the
\* stored task does not have it now.
C12_LostUpdate ==
  /\ last.op = "actualizarTarea"
  /\ last.kind = "OK"
  /\ last.status = TERMINADO
  /\ last.description = Undefined
  /\ last.other.op = "actualizarTarea"
  /\ last.other.kind = "OK"
  /\ last.other.description = Str(<<"a">>)
  /\ last.before.description = Undefined
  /\ store[last.id].status = TERMINADO
  /\ store[last.id].description = Undefined

----------------------------------------------------------------------------
\* C13. As claimed: whenever the stored record of a task changes, its date
\* after the change is strictly greater than its date before, under every
\* interleaving of update requests on that task.
C13_StoredDateIncreases ==
  [][\A i \in Ids :
       (store[i].exists /\ store'[i].exists /\ store'[i] # store[i])
       => store'[i].date > store[i].date]_vars

\* The update request in slot p has overlapped no other request on its task.
C13_Alone(p) ==
  /\ proc[p].other = NoOther
  /\ \A q \in Procs \ {p} : proc[q].pc = "idle" \/ proc[q].id # proc[p].id

\* C13. As amended: the date an update request stamps is strictly greater
\* than the date of the task it fetched, and the write of a request that has
\* overlapped no other request on the task leaves the stored date strictly
\* greater than it was.
C13_StampedDateIncreases ==
  [][\A p \in Procs :
       /\ (proc[p].pc = "upd_getOne" /\ proc'[p].pc = "upd_update")
          => proc'[p].t.date > store[proc[p].id].date
       /\ ( /\ proc[p].pc = "upd_update"
            /\ proc'[p].pc = "upd_reread"
            /\ C13_Alone(p) )
          => store'[proc[p].id].date > store[proc[p].id].date]_vars

\* An update that overlapped another answered 200 on the same task has been
\* answered 200 itself, and the stored date is later than when it arrived.
C13_Witness ==
  /\ last.op = "actualizarTarea"
  /\ last.kind = "OK"
  /\ last.other.op = "actualizarTarea"
  /\ last.other.kind = "OK"
  /\ store[last.id].date > last.before.date

----------------------------------------------------------------------------
----------------------------------------------------------------------------
\* C19. As claimed: under every interleaving of update requests on a task,
\* its stored status never changes from TERMINADO to CANCELADO or from
\* CANCELADO to TERMINADO.
C19_NoTerminalSwap ==
  [][\A i \in Ids :
       ~( /\ store[i].exists
          /\ store'[i].exists
          /\ store[i].status \in {TERMINADO, CANCELADO}
          /\ store'[i].status \in {TERMINADO, CANCELADO}
          /\ store'[i].status # store[i].status )]_vars

\* C19. As amended: no update request writes a terminal status over the other
\* terminal status as it fetched it.  The stored status changes from one
\* terminal status to the other only by the write of a request that fetched
\* the task before it had that status.
C19_NoTerminalSwapAsFetched ==
  [][\A p \in Procs :
       (proc[p].pc = "upd_update" /\ proc'[p].pc = "upd_reread")
       => /\ ~( /\ proc[p].oldStatus \in {TERMINADO, CANCELADO}
                /\ proc[p].t.status \in {TERMINADO, CANCELADO}
                /\ proc[p].t.status # proc[p].oldStatus )
          /\ ( /\ store[proc[p].id].status \in {TERMINADO, CANCELADO}
               /\ store'[proc[p].id].status \in {TERMINADO, CANCELADO}
               /\ store'[proc[p].id].status # store[proc[p].id].status )
             => proc[p].oldStatus # store[proc[p].id].status]_vars

\* Two updates overlapped on a task that was in no terminal status: one was
\* answered 200 for TERMINADO, the other has written CANCELADO after it.
C19_Witness ==
  /\ last.op = "actualizarTarea"
  /\ last.kind = "OK"
  /\ last.status = CANCELADO
  /\ last.oldStatus \notin {TERMINADO, CANCELADO}
  /\ last.other.op = "actualizarTarea"
  /\ last.other.kind = "OK"
  /\ last.other.status = TERMINADO
  /\ store[last.id].status = CANCELADO

----------------------------------------------------------------------------
\* C20. As claimed: the task a 200 update response returns has the requested
\* status when one was supplied and the requested description when one was
\* supplied, under every interleaving.
C20_ReturnsRequested ==
  (last.op = "actualizarTarea" /\ last.kind = "OK")
  => /\ last.status \in StatusValues => last.body.status = last.status
     /\ Truthy(last.description)
          => last.body.description = last.description

\* C20. As amended: the task a 200 update response returns is the task as
\* stored when it was re-read, under the id asked for; it has the requested
\* status and description when no other update wrote the task between this
\* request's write and its re-read.
C20_ReturnsStored ==
  (last.op = "actualizarTarea" /\ last.kind = "OK")
  => /\ last.body = GetOne(last.id)
     /\ ~last.written
          => /\ last.status \in StatusValues
                  => last.body.status = last.status
             /\ Truthy(last.description)
                  => last.body.description = last.description

\* An update asking for a terminal status was answered 200 with a task in
\* another status: another update wrote between its write and its re-read.
C20_Witness ==
  /\ last.op = "actualizarTarea"
  /\ last.kind = "OK"
  /\ last.written
  /\ last.status \in StatusValues
  /\ last.body.status # last.status
  /\ last.body = GetOne(last.id)

====
